---- MODULE Spec2Model ----
(***************************************************************************)
(* Dialog orchestration engine of the Lead & Assistant API.                *)
(*                                                                         *)
(* State: the leads table, the order table and the HTTP requests in        *)
(* flight on POST /dialog/request and POST /dialog/clear.  Every request   *)
(* owns its own database session (DBSessionMiddleware), so the lead object *)
(* a request has loaded is a private copy whose changed attributes are     *)
(* written back when the session commits.                                  *)
(*                                                                         *)
(* Python values: None is NULL, a missing dict key is ABSENT, a value is   *)
(* truthy when it is neither None nor the empty string.  Cyrillic string   *)
(* literals of the source are transliterated.                              *)
(***************************************************************************)
EXTENDS Integers, Sequences, FiniteSets, TLC

VARIABLES leads, orders, env, base, req, started

vars == <<leads, orders, env, base, req, started>>

\* ------------------------------------------------------------------ bounds
\* Number of requests accepted in one run (bounds histories and tables).
MaxRequests == 2

\* Request slots: at most two requests are in flight at the same time.
Reqs == {"r1", "r2"}

\* ------------------------------------------------------------ Python values
NULL == "NULL"
ABSENT == "ABSENT"

Truthy(v) == v \notin {NULL, ""}

\* x or default
Or(v, d) == IF Truthy(v) THEN v ELSE d

\* dict.get(key, default) on a reply field
Get(v, d) == IF v = ABSENT THEN d ELSE v

\* mutant of Strip: whitespace is kept
Strip_nothing(s) == s

\* str.strip() of the request texts used here
Strip(s) == IF s = "  " THEN "" ELSE s

\* ------------------------------------------------------------ stored text
\* The log column holds text.  json.dumps of a history gives the text of a
\* JSON list; other stored texts are NULL, a JSON value that is no list,
\* and text that is no JSON at all.
json_dumps(history) == [kind |-> "list", items |-> history]

NullText == [kind |-> "null", items |-> <<>>]

\* json.loads: raises on text that is no JSON
json_loads_raises(text) == text.kind = "garbage"

json_loads_is_list(text) == text.kind = "list"

json_loads(text) == text.items

\* ------------------------------------------------------------- leads table
\* init_db creates the first administrator in the empty table: it gets
\* the first autoincrement id.
AdminId == 1

LeadIds == 1 .. (AdminId + MaxRequests)

NoLead == [present |-> FALSE, id |-> 0, name |-> NULL, contact |-> NULL,
           log |-> NullText, login |-> NULL, password |-> NULL,
           is_admin |-> FALSE]

Lead(i, n, c, l) == [present |-> TRUE, id |-> i, name |-> n, contact |-> c,
                     log |-> l, login |-> NULL, password |-> NULL,
                     is_admin |-> FALSE]

\* utils.security: a hash is not the password; verify compares the hash of
\* the password given with the stored one, and is False for a stored None
hash_password(password) == "sha256_crypt(" \o password \o ")"

verify_password(plain_password, hashed_password) ==
    hashed_password # NULL /\ hashed_password = hash_password(plain_password)

\* the row init_db seeds: Administrator, login admin, password admin, is_admin
Admin(l) ==
    [Lead(AdminId, "Administrator", NULL, l)
        EXCEPT !.login = "admin", !.password = hash_password("admin"),
               !.is_admin = TRUE]

SetMax(S) == CHOOSE x \in S : \A y \in S : y <= x

\* autoincrement primary key of models.lead.Lead
NextLeadId == SetMax({0} \cup {i \in LeadIds : leads[i].present}) + 1

\* schemas.lead.LeadBase / LeadCreate: the declared fields only; a keyword
\* that is no declared field (id) is dropped by the schema.
LeadFields == {"name", "contact", "log"}

\* LeadBase(**kwargs): fields given are "set", the others default to None
LeadBase(set, n, c, l) ==
    [set |-> set \cap LeadFields,
     name |-> IF "name" \in set THEN n ELSE NULL,
     contact |-> IF "contact" \in set THEN c ELSE NULL,
     log |-> IF "log" \in set THEN l ELSE NullText]

\* LeadCreate(id=..., **kwargs): LeadCreate declares no id field
LeadCreate(id, set, n, c, l) == LeadBase(set, n, c, l)

\* LeadModel(**lead.dict()): the value of a key of the dict
Column(lead, key, default) == IF key \in DOMAIN lead THEN lead[key] ELSE default

\* read_lead_service: the row, or HTTPException(404)
read_lead_service(id) ==
    IF id \in LeadIds /\ leads[id].present
    THEN [raised |-> FALSE, lead |-> leads[id]]
    ELSE [raised |-> TRUE, lead |-> NoLead]

\* The UPDATE a session emits for its object on commit: the attributes whose
\* value differs from the value the session loaded.
flush(row, obj, loaded) ==
    [row EXCEPT !.name = IF obj.name # loaded.name THEN obj.name ELSE @,
                !.contact = IF obj.contact # loaded.contact THEN obj.contact ELSE @,
                !.log = IF obj.log # loaded.log THEN obj.log ELSE @]

\* for key, value in lead_update.dict(exclude_unset=True).items(): setattr
setattrs(obj, upd) ==
    [obj EXCEPT !.name = IF "name" \in upd.set THEN upd.name ELSE @,
                !.contact = IF "contact" \in upd.set THEN upd.contact ELSE @,
                !.log = IF "log" \in upd.set THEN upd.log ELSE @]

\* mutant of update_lead_service: the row is written although the commit
\* raises
update_lead_service_uncommitted(id, upd, obj, loaded) ==
    IF ~(id \in LeadIds /\ leads[id].present)
    THEN [raised |-> TRUE, leads |-> leads, lead |-> obj]
    ELSE LET new == setattrs(obj, upd) IN
         [raised |-> env.commit_raises,
          leads |-> [leads EXCEPT ![id] = flush(@, new, loaded)],
          lead |-> new]

\* update_lead_service(id, lead_update) in a session that holds the object
\* obj, loaded as `loaded`: 404 when the row is gone, else setattr + commit.
\* A commit that raises (env.commit_raises) writes nothing.
update_lead_service(id, upd, obj, loaded) ==
    IF ~(id \in LeadIds /\ leads[id].present)
    THEN [raised |-> TRUE, leads |-> leads, lead |-> obj]
    ELSE LET new == setattrs(obj, upd) IN
         IF env.commit_raises THEN [raised |-> TRUE, leads |-> leads, lead |-> new]
         ELSE [raised |-> FALSE,
               leads |-> [leads EXCEPT ![id] = flush(@, new, loaded)],
               lead |-> new]

\* create_lead_service(lead): LeadModel(**lead.dict()), add, commit, refresh
\* (columns the schema object does not have get their default; the insert
\* of a login another row has raises IntegrityError)
create_lead_service(lead) ==
    LET id == NextLeadId
        row == [present |-> TRUE, id |-> id,
                name |-> Column(lead, "name", NULL),
                contact |-> Column(lead, "contact", NULL),
                log |-> Column(lead, "log", NullText),
                login |-> Column(lead, "login", NULL),
                password |-> Column(lead, "password", NULL),
                is_admin |-> Column(lead, "is_admin", FALSE)]
        taken == /\ row.login # NULL
                 /\ \E i \in LeadIds : leads[i].present /\ leads[i].login = row.login IN
    IF env.commit_raises \/ taken
    THEN [raised |-> TRUE, integrity |-> taken /\ ~env.commit_raises,
          leads |-> leads, lead |-> NoLead]
    ELSE [raised |-> FALSE, integrity |-> FALSE,
          leads |-> [leads EXCEPT ![id] = row], lead |-> row]

\* ------------------------------------------------------------- order table
\* An order row: its id and its status (the other eight columns are text
\* rendered the same way as status and are not tracked).
CANCELLED == "otmenen"

Order(i, s) == [id |-> i, status |-> s]

NextOrderId == SetMax({0} \cup {orders[k].id : k \in DOMAIN orders}) + 1

\* step() asks for one page of orders
OrdersLimit == 50

\* read_orders_service(request, limit): the first `limit` rows
read_orders_service(limit) ==
    SubSeq(orders, 1, IF Len(orders) < limit THEN Len(orders) ELSE limit)

\* execute_sql(sql): the statements a reply can carry are an INSERT of a new
\* order, an UPDATE that cancels order 1, and a statement the database
\* rejects.  True with the new table, or False with the table as it was.
SqlStatements == {"INSERT", "CANCEL1", "BAD"}

CancelOrder(i) ==
    [k \in DOMAIN orders |->
        IF orders[k].id = i THEN Order(i, CANCELLED) ELSE orders[k]]

execute_sql(sql) ==
    CASE sql = "INSERT" ->
            [ok |-> TRUE, orders |-> Append(orders, Order(NextOrderId, "novyi"))]
      [] sql = "CANCEL1" -> [ok |-> TRUE, orders |-> CancelOrder(1)]
      [] OTHER -> [ok |-> FALSE, orders |-> orders]

\* ------------------------------------------------------------ prompt texts
\* A text is a fixed string or a list of rendered lines.
Text(t) == [text |-> t, lines |-> <<>>]

Lines(ls) == [text |-> "", lines |-> ls]

\* A message of the prompt.  kept is the range of characters of the content
\* that a slice left in the message, <<>> where the code slices nothing.
Msg(role, tag, content) ==
    [role |-> role, tag |-> tag, content |-> content, kept |-> <<>>]

\* history entry {"role": role, "content": message}
Turn(role, content) == [role |-> role, content |-> content]

\* mutant of add_message: the assistant's message is not kept
add_message_user_only(history, role, message) ==
    IF role = "assistant" THEN history ELSE Append(history, Turn(role, message))

\* add_message
add_message(history, role, message) == Append(history, Turn(role, message))

RECURSIVE SelectSeqOrders(_)
\* the loop of step 2 over the fetched orders: cancelled ones are skipped,
\* every other one gives a line "#id: ... | status | ..."
SelectSeqOrders(os) ==
    IF os = <<>> THEN <<>>
    ELSE LET o == Head(os)
             rest == SelectSeqOrders(Tail(os)) IN
         IF o.status = CANCELLED THEN rest
         ELSE <<[id |-> o.id, status |-> Or(o.status, "-")]>> \o rest

\* mutant of orders_text: every fetched order gives a line, cancelled or not
orders_text_unfiltered(fetch_raises) ==
    IF fetch_raises THEN Text("Oshibka chteniya zakazov")
    ELSE LET os == read_orders_service(OrdersLimit)
             formatted_orders ==
                 [k \in DOMAIN os |-> [id |-> os[k].id, status |-> Or(os[k].status, "-")]] IN
         IF formatted_orders # <<>> THEN Lines(formatted_orders)
         ELSE Text("zakazy ne naideny")

\* step 2: orders_text
orders_text(fetch_raises) ==
    IF fetch_raises THEN Text("Oshibka chteniya zakazov")
    ELSE LET formatted_orders == SelectSeqOrders(read_orders_service(OrdersLimit)) IN
         IF formatted_orders # <<>> THEN Lines(formatted_orders)
         ELSE Text("zakazy ne naideny")

\* A hit of the index: its distance (in tenths) and the passage it names.
Hit(score, content) == [score |-> score, content |-> content]

\* formatted_results.sort(key=lambda x: x["score"]): ascending and stable
RECURSIVE SortByScore(_)
SortByScore(rs) ==
    IF rs = <<>> THEN <<>>
    ELSE LET m == CHOOSE i \in DOMAIN rs : \A j \in DOMAIN rs :
                    rs[i].score < rs[j].score \/ (rs[i].score = rs[j].score /\ i <= j)
             rest == [k \in 1 .. (Len(rs) - 1) |-> IF k < m THEN rs[k] ELSE rs[k + 1]] IN
         <<rs[m]>> \o SortByScore(rest)

\* mutant of search_chunks: the hits are returned in the order of the index
search_chunks_unsorted(hits) == hits

\* Base.search_chunks: the hits of the index sorted by ascending score
search_chunks(hits) == SortByScore(hits)

\* What the collaborators do in a run (env): base_read gives the FAQ text
\* or raises, the index gives its hits (scores) or raises, and the read of
\* the order table raises or not.
FaqOutcomes == {"raise", "", "FAQ"}

SearchOutcomes == {[raises |-> TRUE, hits |-> <<>>],
                   [raises |-> FALSE, hits |-> <<>>],
                   [raises |-> FALSE,
                    hits |-> <<Hit(5, "p1"), Hit(1, "p2"), Hit(9, "p3")>>]}

KbError == Text("Oshibka chteniya bazy znanii")

\* step 3: (faq_text, chunks_text).  Both start empty; one try block reads
\* the FAQ and then searches, and its handler assigns faq_text.
knowledge(faq, search) ==
    IF faq = "raise" THEN [faq_text |-> KbError, chunks_text |-> Text("")]
    ELSE LET read == IF Strip(faq) = "" THEN Text("Baza znanii pusta") ELSE Text(faq) IN
         IF search.raises THEN [faq_text |-> KbError, chunks_text |-> Text("")]
         ELSE LET search_results == search_chunks(search.hits) IN
              [faq_text |-> read,
               chunks_text |-> IF search_results # <<>> THEN Lines(search_results)
                               ELSE Text("fragmenty ne naideny")]

\* step 4: dialog_text
dialog_text(dialog_history) ==
    IF dialog_history # <<>> THEN Lines(dialog_history) ELSE Text("dialog otsutstvuet")

\* len() of a text.  The texts "m1500", "p3000" and "faq5000" stand for a
\* message, a passage and a FAQ of that many characters.
CharLen(t) ==
    CASE t = "m1500" -> 1500
      [] t = "p3000" -> 3000
      [] t = "faq5000" -> 5000
      [] OTHER -> Len(t)

\* len(sep.join(parts)) for parts of the given lengths
RECURSIVE JoinLen(_, _)
JoinLen(lens, sep) ==
    IF lens = <<>> THEN 0
    ELSE IF Len(lens) = 1 THEN lens[1]
    ELSE lens[1] + sep + JoinLen(Tail(lens), sep)

\* len(chunks_text): "- (score=d.ddd) content" joined by two newlines
chunks_len(content) ==
    IF content.lines = <<>> THEN CharLen(content.text)
    ELSE JoinLen([k \in DOMAIN content.lines |-> 16 + CharLen(content.lines[k].content)], 2)

\* len(dialog_text): "role: content" joined by one newline
dialog_len(content) ==
    IF content.lines = <<>> THEN CharLen(content.text)
    ELSE JoinLen([k \in DOMAIN content.lines |->
                    Len(content.lines[k].role) + 2 + CharLen(content.lines[k].content)], 1)

\* text[:n] of a text of `total` characters: the characters 1 .. min(n, total)
Slice(total, n) == <<1, IF total > n THEN n ELSE total>>

\* the first seven messages of step 5
base_messages(otext, kb, dialog_history) ==
    << Msg("system", "persona", Text("DIALOG_SYS_PROMPT")),
       Msg("system", "date", Text("current_date")),
       Msg("system", "track", Text("track_number")),
       Msg("system", "orders", otext),
       [Msg("system", "faq", kb.faq_text)
            EXCEPT !.kept = Slice(CharLen(kb.faq_text.text), 4000)],
       [Msg("system", "chunks", kb.chunks_text)
            EXCEPT !.kept = Slice(chunks_len(kb.chunks_text), 4000)],
       [Msg("system", "history", dialog_text(dialog_history))
            EXCEPT !.kept = Slice(dialog_len(dialog_text(dialog_history)), 2000)] >>

\* mutant of greeting_condition: "or" in place of "and"
greeting_condition_or(lead) == ~Truthy(lead.name) \/ ~Truthy(lead.contact)

\* if not lead.name and not lead.contact (reads attributes of lead)
greeting_condition(lead) == ~Truthy(lead.name) /\ ~Truthy(lead.contact)

\* if lead and (lead.name or lead.contact)
known_condition(lead) == lead.present /\ (Truthy(lead.name) \/ Truthy(lead.contact))

user_message(user_input) == Msg("user", "question", Text(user_input))

\* mutant of messages: the known client info is appended after the user
\* message
messages_user_before_known(lead, otext, kb, dialog_history, user_input) ==
    base_messages(otext, kb, dialog_history)
      \o (IF greeting_condition(lead)
          THEN <<Msg("system", "greeting", Text("greeting"))>> ELSE <<>>)
      \o <<user_message(user_input)>>
      \o (IF known_condition(lead)
          THEN <<Msg("system", "known",
                     [text |-> "known", lines |-> <<Or(lead.name, "ne ukazano"),
                                                    Or(lead.contact, "ne ukazan")>>])>>
          ELSE <<>>)

\* steps 5: the whole message list for a lead that is not None
messages(lead, otext, kb, dialog_history, user_input) ==
    base_messages(otext, kb, dialog_history)
      \o (IF greeting_condition(lead)
          THEN <<Msg("system", "greeting", Text("greeting"))>> ELSE <<>>)
      \o (IF known_condition(lead)
          THEN <<Msg("system", "known",
                     [text |-> "known", lines |-> <<Or(lead.name, "ne ukazano"),
                                                    Or(lead.contact, "ne ukazan")>>])>>
          ELSE <<>>)
      \o <<user_message(user_input)>>

\* ------------------------------------------------------------- LLM replies
\* The raw text gpt_request returns: text that is no JSON, JSON that is no
\* object, or a JSON object with the keys of the turn-result contract.
\* ctrl says that the text carries ASCII control characters (which no JSON
\* parser accepts inside the text).
Reply(kind, ctrl, ma, sql, un, uc) ==
    [kind |-> kind, ctrl |-> ctrl, model_answer |-> ma, sql |-> sql,
     user_name |-> un, user_contact |-> uc]

EmptyDict == Reply("dict", FALSE, ABSENT, ABSENT, ABSENT, ABSENT)

\* a JSON value of the "sql" key that is no string (a number, a list)
NONSTR == "NONSTR"

Replies ==
    { Reply("garbage", FALSE, ABSENT, ABSENT, ABSENT, ABSENT),
      Reply("nondict", FALSE, ABSENT, ABSENT, ABSENT, ABSENT),
      Reply("dict", TRUE, "ok", NULL, ABSENT, ABSENT),
      EmptyDict,
      Reply("dict", FALSE, "ok", "INSERT", "Ann", ABSENT),
      Reply("dict", FALSE, "ok", "CANCEL1", ABSENT, "c"),
      Reply("dict", FALSE, "ok", "BAD", NULL, ABSENT),
      Reply("dict", FALSE, "ok", NONSTR, "", ABSENT) }

\* re.sub(r'[\x00-\x1f]+', '', raw_response)
re_sub_control(raw) == [raw EXCEPT !.ctrl = FALSE]

ParseError == "Oshibka razbora otveta modeli"

\* mutant of parse_response: the handler leaves the default empty answer
parse_response_empty_answer(raw_response) ==
    LET clean_response == re_sub_control(raw_response) IN
    IF clean_response.ctrl \/ clean_response.kind # "dict"
    THEN [failed |-> TRUE, response_data |-> EmptyDict,
          model_answer |-> "", sql_command |-> NULL]
    ELSE [failed |-> FALSE, response_data |-> clean_response,
          model_answer |-> Get(clean_response.model_answer, ""),
          sql_command |-> Get(clean_response.sql, NULL)]

\* step 7: the try block (strip, json.loads, the three .get calls) and its
\* handler
parse_response(raw_response) ==
    LET clean_response == re_sub_control(raw_response) IN
    IF clean_response.ctrl \/ clean_response.kind # "dict"
    THEN [failed |-> TRUE, response_data |-> EmptyDict,
          model_answer |-> ParseError, sql_command |-> NULL]
    ELSE [failed |-> FALSE, response_data |-> clean_response,
          model_answer |-> Get(clean_response.model_answer, ""),
          sql_command |-> Get(clean_response.sql, NULL)]

\* if sql_command and isinstance(sql_command, str)
sql_condition(sql_command) == Truthy(sql_command) /\ sql_command # NONSTR

\* step 9: lead.name / lead.contact from the reply
update_lead(lead, response_data) ==
    [lead EXCEPT !.name = Get(response_data.user_name, @),
                 !.contact = Get(response_data.user_contact, @)]

\* load_history: (lead, history), (None, []) when the read raises
load_history(client_id) ==
    LET r == read_lead_service(client_id) IN
    IF r.raised THEN [lead |-> NoLead, history |-> <<>>]
    ELSE IF r.lead.log.kind = "null" THEN [lead |-> r.lead, history |-> <<>>]
    ELSE IF json_loads_raises(r.lead.log) THEN [lead |-> r.lead, history |-> <<>>]
    ELSE IF json_loads_is_list(r.lead.log)
         THEN [lead |-> r.lead, history |-> json_loads(r.lead.log)]
         ELSE [lead |-> r.lead, history |-> <<>>]

\* mutant of save_history: the turn's two entries are appended to the
\* history stored at the time of the write
save_history_appending(client_id, lead, loaded, dialog_history) ==
    LET n == Len(dialog_history)
        merged == load_history(client_id).history \o SubSeq(dialog_history, n - 1, n) IN
    IF lead.present
    THEN update_lead_service(client_id,
                             LeadBase({"log"}, NULL, NULL, json_dumps(merged)),
                             lead, loaded)
    ELSE create_lead_service(
             LeadCreate(client_id, {"log", "id"}, NULL, NULL, json_dumps(merged)))

\* save_history(lead): update when lead is not None, else create
save_history(client_id, lead, loaded, dialog_history) ==
    IF lead.present
    THEN update_lead_service(client_id,
                             LeadBase({"log"}, NULL, NULL, json_dumps(dialog_history)),
                             lead, loaded)
    ELSE create_lead_service(
             LeadCreate(client_id, {"log", "id"}, NULL, NULL, json_dumps(dialog_history)))

\* --------------------------------------------------------------- requests
ClientIds == {1, 3}

UserInputs == {"", "  ", "hi"}

IdleReq ==
    [op |-> "none", pc |-> "idle", client_id |-> 0, user_input |-> "",
     lead |-> NoLead, loaded |-> NoLead, dialog_history |-> <<>>,
     history0 |-> <<>>, messages |-> <<>>, raw_response |-> EmptyDict,
     parse_failed |-> FALSE, model_answer |-> "", sql_command |-> NULL,
     success |-> NULL, token |-> NULL, status |-> 0, response |-> NULL, llm_calls |-> 0,
     sql_calls |-> 0, writes |-> 0, results |-> NULL, password |-> NULL]

Free(r) == req[r].pc \in {"idle", "done"}

\* ---------------------------------------------------------- knowledge index
\* Base holds the chunks and the index in memory and keeps a copy of the
\* index in a folder on disk.  An index is identified by the text of the
\* document it was built from; None and "no folder" are NULL.
Documents == {"doc1", "doc2"}

\* Base() at startup when the index folder exists: load_index reads it
LoadedBase == [chunks |-> NULL, index |-> "doc1", saved |-> "doc1"]

\* load_local_document: the text of the file, FileNotFoundError without one
load_local_document(document) ==
    [raised |-> IF document = NULL THEN "FileNotFoundError" ELSE NULL,
     text |-> document]

\* mutant of build_index: the old index is dropped before the new one is built
build_index_dropping_old(b, document, embed_raises) ==
    LET text == load_local_document(document)
        b0 == [b EXCEPT !.index = NULL] IN
    IF text.raised # NULL THEN [raised |-> text.raised, base |-> b0]
    ELSE IF embed_raises
    THEN [raised |-> "Exception", base |-> [b0 EXCEPT !.chunks = text.text]]
    ELSE [raised |-> NULL,
          base |-> [b0 EXCEPT !.chunks = text.text, !.index = text.text]]

\* build_index: the chunks are assigned, then FAISS.from_documents builds
\* the whole index (a call to the embeddings service, which may raise) and
\* the result is assigned to self.index
build_index(b, document, embed_raises) ==
    LET text == load_local_document(document) IN
    IF text.raised # NULL THEN [raised |-> text.raised, base |-> b]
    ELSE IF embed_raises
    THEN [raised |-> "Exception", base |-> [b EXCEPT !.chunks = text.text]]
    ELSE [raised |-> NULL,
          base |-> [b EXCEPT !.chunks = text.text, !.index = text.text]]

\* save_index: ValueError without an index; writing the folder may raise
save_index(b, save_raises) ==
    IF b.index = NULL THEN [raised |-> "ValueError", base |-> b]
    ELSE IF save_raises THEN [raised |-> "Exception", base |-> b]
    ELSE [raised |-> NULL, base |-> [b EXCEPT !.saved = b.index]]

\* load_index: read the folder if there is one, else build and save
load_index(b, document, embed_raises, save_raises) ==
    IF b.saved # NULL THEN [raised |-> NULL, base |-> [b EXCEPT !.index = b.saved]]
    ELSE LET x == build_index(b, document, embed_raises) IN
         IF x.raised # NULL THEN x ELSE save_index(x.base, save_raises)

\* rebuild_index without a request (self.log is None, so nothing is
\* awaited): remove the folder, build_index, save_index
rebuild_index(b, document, embed_raises, save_raises) ==
    LET x == build_index([b EXCEPT !.saved = NULL], document, embed_raises) IN
    IF x.raised # NULL THEN x ELSE save_index(x.base, save_raises)

\* Base.search_chunks up to the similarity search: load_index when there
\* is no index, then the search on self.index (the query is embedded by
\* the embeddings service, which may raise)
similarity_search(b, document, embed_raises, save_raises) ==
    LET x == IF b.index = NULL
             THEN load_index(b, document, embed_raises, save_raises)
             ELSE [raised |-> NULL, base |-> b] IN
    IF x.raised # NULL THEN [raised |-> x.raised, base |-> x.base, index |-> NULL]
    ELSE IF embed_raises THEN [raised |-> "Exception", base |-> x.base, index |-> NULL]
    ELSE [raised |-> NULL, base |-> x.base, index |-> x.base.index]

\* The state when the application starts serving: init_db has made sure the
\* administrator exists (the leads table is otherwise empty here), the order
\* table holds what earlier runs left (one open and one cancelled order), no
\* request is in flight.  env is what the collaborators outside the engine
\* do during the run; started counts the requests accepted.  The search is
\* not called after a FAQ read that raised, so no outcome is drawn for it
\* then; a failing order fetch is drawn with a knowledge base that works.  A lead
\* row is tracked by the columns the dialog engine and the routes read and
\* write (id, name, contact, log, login, is_admin).
Init ==
    /\ leads = [i \in LeadIds |->
                  IF i = AdminId THEN Admin(NullText)
                  ELSE NoLead]
    /\ orders = <<Order(1, "novyi"), Order(2, CANCELLED)>>
    /\ env \in {e \in [fetch_raises : BOOLEAN, faq : FaqOutcomes,
                         search : SearchOutcomes, commit_raises : {FALSE}] :
                  /\ e.faq = "raise" => e.search = [raises |-> FALSE, hits |-> <<>>]
                  /\ e.fetch_raises => e.faq = "FAQ" /\ ~e.search.raises}
    /\ req = [r \in Reqs |-> IdleReq]
    /\ base = LoadedBase
    /\ started = 0

\* The boundary's answer: the handler returns 200 with a body, or its
\* except clause turns the exception into HTTPException(500).
Answer(q, status, response) ==
    [q EXCEPT !.pc = "done", !.status = status, !.response = response]

\* mutant of dialog_request: a failing order fetch ends the request
dialog_request_orders_fatal(r) ==
    /\ Free(r)
    /\ started < MaxRequests
    /\ \E client_id \in ClientIds, user_input \in UserInputs :
         LET q0 == [IdleReq EXCEPT !.op = "turn", !.client_id = client_id,
                                   !.user_input = user_input]
             h == load_history(client_id)
             history == add_message(h.history, "user", user_input)
             q1 == [q0 EXCEPT !.lead = h.lead, !.loaded = h.lead,
                              !.history0 = h.history, !.dialog_history = history]
             otext == orders_text(env.fetch_raises)
             kb == knowledge(env.faq, env.search) IN
         req' = [req EXCEPT ![r] =
                   IF Strip(user_input) = "" THEN Answer(q0, 400, NULL)
                   ELSE IF ~h.lead.present \/ env.fetch_raises THEN Answer(q1, 500, NULL)
                   ELSE [q1 EXCEPT !.pc = "llm",
                                   !.messages = messages(h.lead, otext, kb, history,
                                                         user_input)]]
    /\ started' = started + 1
    /\ UNCHANGED <<leads, orders, env, base>>

\* POST /dialog/request up to the call of the LLM: the 400 check of the
\* route, then steps 1-5 of step() (load, add the user message, orders,
\* knowledge base, messages).  Reading lead.name of a lead that is None
\* raises, and the route answers 500.
dialog_request(r) ==
    /\ Free(r)
    /\ started < MaxRequests
    /\ \E client_id \in ClientIds, user_input \in UserInputs :
         LET q0 == [IdleReq EXCEPT !.op = "turn", !.client_id = client_id,
                                   !.user_input = user_input]
             h == load_history(client_id)
             history == add_message(h.history, "user", user_input)
             q1 == [q0 EXCEPT !.lead = h.lead, !.loaded = h.lead,
                              !.history0 = h.history, !.dialog_history = history]
             otext == orders_text(env.fetch_raises)
             kb == knowledge(env.faq, env.search) IN
         req' = [req EXCEPT ![r] =
                   IF Strip(user_input) = "" THEN Answer(q0, 400, NULL)
                   ELSE IF ~h.lead.present THEN Answer(q1, 500, NULL)
                   ELSE [q1 EXCEPT !.pc = "llm",
                                   !.messages = messages(h.lead, otext, kb, history,
                                                         user_input)]]
    /\ started' = started + 1
    /\ UNCHANGED <<leads, orders, env, base>>

\* mutant of gpt_request_raises: a failed call is tried once more
gpt_request_retried(r) ==
    /\ req[r].pc = "llm"
    /\ req' = [req EXCEPT ![r] =
                 IF @.llm_calls = 0 THEN [@ EXCEPT !.llm_calls = @ + 1]
                 ELSE Answer([@ EXCEPT !.llm_calls = @ + 1], 500, NULL)]
    /\ UNCHANGED <<leads, orders, env, base, started>>

\* step 6 raises: gpt_request fails, nothing in step() catches it
gpt_request_raises(r) ==
    /\ req[r].pc = "llm"
    /\ req' = [req EXCEPT ![r] = Answer([@ EXCEPT !.llm_calls = @ + 1], 500, NULL)]
    /\ UNCHANGED <<leads, orders, env, base, started>>

\* mutant of gpt_request_returns: a statement that fails ends the turn
gpt_request_returns_sql_fatal(r) ==
    /\ req[r].pc = "llm"
    /\ \E raw_response \in Replies :
         LET p == parse_response(raw_response)
             run == sql_condition(p.sql_command)
             x == execute_sql(p.sql_command)
             q == [req[r] EXCEPT !.pc = "save", !.llm_calls = @ + 1,
                                 !.raw_response = raw_response,
                                 !.parse_failed = p.failed,
                                 !.model_answer = p.model_answer,
                                 !.sql_command = p.sql_command,
                                 !.sql_calls = IF run THEN @ + 1 ELSE @,
                                 !.success = IF ~run THEN @
                                             ELSE IF x.ok THEN "True" ELSE "False"] IN
         /\ req' = [req EXCEPT ![r] = IF run /\ ~x.ok THEN Answer(q, 500, NULL) ELSE q]
         /\ orders' = IF run THEN x.orders ELSE orders
    /\ UNCHANGED <<leads, env, base, started>>

\* steps 6-8: gpt_request returns, the reply is parsed, its SQL is executed
\* and the outcome kept in success
gpt_request_returns(r) ==
    /\ req[r].pc = "llm"
    /\ \E raw_response \in Replies :
         LET p == parse_response(raw_response)
             run == sql_condition(p.sql_command)
             x == execute_sql(p.sql_command) IN
         /\ req' = [req EXCEPT ![r] =
                      [@ EXCEPT !.pc = "save", !.llm_calls = @ + 1,
                                !.raw_response = raw_response,
                                !.parse_failed = p.failed,
                                !.model_answer = p.model_answer,
                                !.sql_command = p.sql_command,
                                !.sql_calls = IF run THEN @ + 1 ELSE @,
                                !.success = IF ~run THEN @
                                            ELSE IF x.ok THEN "True" ELSE "False"]]
         /\ orders' = IF run THEN x.orders ELSE orders
    /\ UNCHANGED <<leads, env, base, started>>

\* steps 9-10 and the return: the lead takes the reply's name and contact,
\* the assistant message is added, save_history writes, the route answers
step_save(r) ==
    /\ req[r].pc = "save"
    /\ LET q == req[r]
           rd == IF q.parse_failed THEN EmptyDict ELSE re_sub_control(q.raw_response)
           lead == IF q.lead.present THEN update_lead(q.lead, rd) ELSE q.lead
           history == add_message(q.dialog_history, "assistant", q.model_answer)
           w == save_history(q.client_id, lead, q.loaded, history)
           q1 == [q EXCEPT !.lead = w.lead, !.dialog_history = history] IN
       /\ leads' = w.leads
       /\ req' = [req EXCEPT ![r] =
                    IF w.raised THEN Answer(q1, 500, NULL)
                    ELSE Answer([q1 EXCEPT !.writes = @ + 1], 200, q.model_answer)]
    /\ UNCHANGED <<orders, env, base, started>>

\* POST /dialog/clear, first half of clear_dialog: the lead is read
dialog_clear(r) ==
    /\ Free(r)
    /\ started < MaxRequests
    /\ \E client_id \in ClientIds :
         LET e == read_lead_service(client_id) IN
         req' = [req EXCEPT ![r] =
                   [IdleReq EXCEPT !.op = "clear", !.pc = "clear",
                                   !.client_id = client_id,
                                   !.lead = e.lead, !.loaded = e.lead]]
    /\ started' = started + 1
    /\ UNCHANGED <<leads, orders, env, base>>

\* the empty profile clear_dialog writes
empty_lead == LeadBase({"name", "contact", "log"}, NULL, NULL, json_dumps(<<>>))

\* second half of clear_dialog: update the lead read, or create one
clear_dialog(r) ==
    /\ req[r].pc = "clear"
    /\ LET q == req[r]
           w == IF q.lead.present
                THEN update_lead_service(q.client_id, empty_lead, q.lead, q.loaded)
                ELSE create_lead_service(
                         LeadCreate(q.client_id, {"id"} \cup empty_lead.set,
                                    empty_lead.name, empty_lead.contact, empty_lead.log))
           q1 == [q EXCEPT !.lead = w.lead] IN
       /\ leads' = w.leads
       /\ req' = [req EXCEPT ![r] =
                    IF w.raised THEN Answer(q1, 500, NULL)
                    ELSE Answer([q1 EXCEPT !.writes = @ + 1], 200, "ochishchen")]
    /\ UNCHANGED <<orders, env, base, started>>

Next ==
    \E r \in Reqs :
        \/ dialog_request(r)
        \/ gpt_request_raises(r)
        \/ gpt_request_returns(r)
        \/ step_save(r)
        \/ dialog_clear(r)
        \/ clear_dialog(r)

Spec == Init /\ [][Next]_vars

\* The same program over a database whose commit of the lead row may
\* raise (lost connection, locked table): env.commit_raises is drawn too.
InitFaults ==
    /\ leads = [i \in LeadIds |->
                  IF i = AdminId THEN Admin(NullText)
                  ELSE NoLead]
    /\ orders = <<Order(1, "novyi"), Order(2, CANCELLED)>>
    /\ env \in [fetch_raises : BOOLEAN, faq : {"FAQ"},
                search : {[raises |-> FALSE, hits |-> <<>>]},
                commit_raises : BOOLEAN]
    /\ req = [r \in Reqs |-> IdleReq]
    /\ base = LoadedBase
    /\ started = 0

SpecFaults == InitFaults /\ [][Next]_vars

\* The same program over a database and a knowledge base that hold long
\* texts: a stored conversation with messages of 1500 characters, a FAQ
\* of 5000 characters, passages of 3000 characters.
StoredHistories ==
    {<<>>,
     <<Turn("user", "hi"), Turn("assistant", "ok")>>,
     <<Turn("user", "m1500"), Turn("assistant", "ok")>>,
     <<Turn("user", "m1500"), Turn("assistant", "m1500")>>}

InitLong ==
    /\ \E h \in StoredHistories :
         leads = [i \in LeadIds |->
                    IF i = AdminId
                    THEN Admin(IF h = <<>> THEN NullText ELSE json_dumps(h))
                    ELSE NoLead]
    /\ orders = <<Order(1, "novyi"), Order(2, CANCELLED)>>
    /\ env \in [fetch_raises : {FALSE}, faq : {"FAQ", "faq5000"},
                search : {[raises |-> FALSE, hits |-> <<Hit(5, "p1"), Hit(1, "p2")>>],
                          [raises |-> FALSE, hits |-> <<Hit(5, "p3000"), Hit(1, "p3000")>>]},
                commit_raises : {FALSE}]
    /\ req = [r \in Reqs |-> IdleReq]
    /\ base = LoadedBase
    /\ started = 0

SpecLong == InitLong /\ [][Next]_vars

\* ------------------------------------------------- lookups by id (routes)
\* delete_lead_service: 404 when the row is missing, else delete + commit
delete_lead_service(id) ==
    IF ~(id \in LeadIds /\ leads[id].present)
    THEN [raised |-> TRUE, leads |-> leads]
    ELSE [raised |-> FALSE, leads |-> [leads EXCEPT ![id] = NoLead]]

\* the position of the order row with an id, 0 when there is none
OrderIndex(id) ==
    IF \E k \in DOMAIN orders : orders[k].id = id
    THEN CHOOSE k \in DOMAIN orders : orders[k].id = id
    ELSE 0

read_order_service(id) == [raised |-> OrderIndex(id) = 0]

\* update_order_service: 404 when missing, else setattr of the set fields
update_order_service(id, order_update) ==
    IF OrderIndex(id) = 0 THEN [raised |-> TRUE, orders |-> orders]
    ELSE [raised |-> FALSE,
          orders |-> [orders EXCEPT ![OrderIndex(id)].status =
                         IF "status" \in order_update.set THEN order_update.status ELSE @]]

\* delete_order_service: 404 when missing, else the row is removed
delete_order_service(id) ==
    IF OrderIndex(id) = 0 THEN [raised |-> TRUE, orders |-> orders]
    ELSE [raised |-> FALSE,
          orders |-> SelectSeq(orders, LAMBDA o : o.id # id)]

\* get_current_user: the row whose login the token names, 401 when none
get_current_user(token) ==
    IF \E i \in LeadIds : leads[i].present /\ leads[i].login = token
    THEN leads[CHOOSE i \in LeadIds : leads[i].present /\ leads[i].login = token]
    ELSE NoLead

\* path ids, token subjects and request bodies of the lookups
PathIds == {1, 2, 3}

Tokens == {"admin", "nobody"}

LeadUpdates == {LeadBase({"name"}, "Bob", NULL, NullText)}

OrderUpdates == {[set |-> {"status"}, status |-> CANCELLED]}

UserBase(set, n, l, p, a) ==
    [set |-> set,
     name |-> IF "name" \in set THEN n ELSE NULL,
     login |-> IF "login" \in set THEN l ELSE NULL,
     password |-> IF "password" \in set THEN p ELSE NULL,
     is_admin |-> IF "is_admin" \in set THEN a ELSE FALSE]

UserUpdates == {UserBase({"name"}, "Bob", NULL, NULL, FALSE),
                UserBase({"is_admin"}, NULL, NULL, NULL, FALSE),
                UserBase({"is_admin"}, NULL, NULL, NULL, TRUE),
                UserBase({"login", "password"}, NULL, "admin", "pw", FALSE)}

\* a request of a route on an id with a token, as a finished record
Route(op, id, token, status) ==
    [IdleReq EXCEPT !.op = op, !.pc = "done", !.client_id = id, !.token = token,
                    !.status = status]

\* the answer of a route and what it leaves in the tables
Handle(r, q, new_leads, new_orders) ==
    /\ req' = [req EXCEPT ![r] = q]
    /\ leads' = new_leads
    /\ orders' = new_orders
    /\ started' = started + 1
    /\ UNCHANGED <<env, base>>

\* the lead and order routes: Depends(get_current_user), then the service
\* inside try / except Exception: log; raise
Guarded(r, op, id, token, status, new_leads, new_orders) ==
    IF ~get_current_user(token).present
    THEN Handle(r, Route(op, id, token, 401), leads, orders)
    ELSE Handle(r, Route(op, id, token, status), new_leads, new_orders)

\* GET /lead/{id}
read_lead(r) ==
    /\ Free(r)
    /\ started < MaxRequests
    /\ \E id \in PathIds, token \in Tokens :
           Guarded(r, "read_lead", id, token,
                   IF read_lead_service(id).raised THEN 404 ELSE 200, leads, orders)

\* PUT /lead/{id}
put_lead(r) ==
    /\ Free(r)
    /\ started < MaxRequests
    /\ \E id \in PathIds, token \in Tokens, lead_update \in LeadUpdates :
           LET w == update_lead_service(id, lead_update, leads[id], leads[id]) IN
           Guarded(r, "put_lead", id, token, IF w.raised THEN 404 ELSE 200, w.leads, orders)

\* DELETE /lead/{id}
delete_lead(r) ==
    /\ Free(r)
    /\ started < MaxRequests
    /\ \E id \in PathIds, token \in Tokens :
           LET w == delete_lead_service(id) IN
           Guarded(r, "delete_lead", id, token, IF w.raised THEN 404 ELSE 204, w.leads, orders)

\* GET /order/{id}
read_order(r) ==
    /\ Free(r)
    /\ started < MaxRequests
    /\ \E id \in PathIds, token \in Tokens :
           Guarded(r, "read_order", id, token,
                   IF read_order_service(id).raised THEN 404 ELSE 200, leads, orders)

\* PUT /order/{id}
update_order(r) ==
    /\ Free(r)
    /\ started < MaxRequests
    /\ \E id \in PathIds, token \in Tokens, order_update \in OrderUpdates :
           LET w == update_order_service(id, order_update) IN
           Guarded(r, "update_order", id, token, IF w.raised THEN 404 ELSE 200, leads, w.orders)

\* DELETE /order/{id}
delete_order(r) ==
    /\ Free(r)
    /\ started < MaxRequests
    /\ \E id \in PathIds, token \in Tokens :
           LET w == delete_order_service(id) IN
           Guarded(r, "delete_order", id, token, IF w.raised THEN 404 ELSE 204, leads, w.orders)

\* stored texts that are no JSON, and JSON that is no list
GarbageText == [kind |-> "garbage", items |-> <<>>]

NonListText == [kind |-> "value", items |-> <<>>]

\* GET /dialog/history/{client_id}: the HTTPException of the read is
\* re-raised; json.loads(lead.log) if lead.log else [], with [] for a
\* JSONDecodeError; what was loaded is returned as history, and a history
\* that is no list fails the validation of the response model
\* (history: List[Dict]) after the handler has returned: 500.
get_dialog_history(r) ==
    /\ Free(r)
    /\ started < MaxRequests
    /\ \E id \in PathIds, token \in Tokens :
           LET e == read_lead_service(id)
               log == e.lead.log
               is_list == log.kind = "null" \/ json_loads_raises(log)
                             \/ json_loads_is_list(log)
               history_data == IF log.kind = "null" \/ json_loads_raises(log) THEN <<>>
                               ELSE json_loads(log)
               q == Route("get_dialog_history", id, token,
                          IF e.raised THEN 404 ELSE IF is_list THEN 200 ELSE 500) IN
           IF ~get_current_user(token).present
           THEN Handle(r, Route("get_dialog_history", id, token, 401), leads, orders)
           ELSE Handle(r, [q EXCEPT !.dialog_history =
                                        IF q.status = 200 THEN history_data ELSE <<>>],
                       leads, orders)

\* GET /auth/users/{user_id}: the read comes first, then the 403 check
get_user(r) ==
    /\ Free(r)
    /\ started < MaxRequests
    /\ \E id \in PathIds, token \in Tokens :
           LET current_user == get_current_user(token)
               user == read_lead_service(id) IN
           Guarded(r, "get_user", id, token,
                   IF user.raised THEN 404
                   ELSE IF ~current_user.is_admin /\ user.lead.id # current_user.id THEN 403
                   ELSE 200,
                   leads, orders)

\* PUT /auth/users/{user_id}: the 403 checks, then read, setattr and commit
\* inside try; except Exception turns every exception of the block, the
\* HTTPException(404) of the read included, into HTTPException(500)
update_user(r) ==
    /\ Free(r)
    /\ started < MaxRequests
    /\ \E id \in PathIds, token \in Tokens, user_update \in UserUpdates :
           LET current_user == get_current_user(token)
               db_user == read_lead_service(id)
               refused == /\ ~current_user.is_admin
                          /\ (id # current_user.id \/ user_update.is_admin)
               row == [leads[id] EXCEPT
                          !.name = IF "name" \in user_update.set THEN user_update.name ELSE @,
                          !.login = IF "login" \in user_update.set
                                    THEN user_update.login ELSE @,
                          !.password = IF "password" \in user_update.set
                                       THEN IF Truthy(user_update.password)
                                            THEN hash_password(user_update.password)
                                            ELSE user_update.password
                                       ELSE @,
                          !.is_admin = IF "is_admin" \in user_update.set
                                       THEN user_update.is_admin ELSE @]
               IntegrityError ==
                   /\ row.login # NULL
                   /\ \E i \in LeadIds \ {id} : leads[i].present /\ leads[i].login = row.login
               unchanged == refused \/ db_user.raised \/ IntegrityError IN
           Guarded(r, "update_user", id, token,
                   IF refused THEN 403 ELSE IF db_user.raised THEN 500
                   ELSE IF IntegrityError THEN 409 ELSE 200,
                   IF unchanged THEN leads ELSE [leads EXCEPT ![id] = row],
                   orders)

\* DELETE /auth/users/{user_id}: the 403 check, then delete_lead_service
delete_user(r) ==
    /\ Free(r)
    /\ started < MaxRequests
    /\ \E id \in PathIds, token \in Tokens :
           LET current_user == get_current_user(token)
               refused == ~current_user.is_admin /\ id # current_user.id
               w == delete_lead_service(id) IN
           Guarded(r, "delete_user", id, token,
                   IF refused THEN 403 ELSE IF w.raised THEN 404 ELSE 200,
                   IF refused THEN leads ELSE w.leads, orders)

NextLookups ==
    \E r \in Reqs :
        \/ read_lead(r)
        \/ put_lead(r)
        \/ delete_lead(r)
        \/ read_order(r)
        \/ update_order(r)
        \/ delete_order(r)
        \/ get_dialog_history(r)
        \/ get_user(r)
        \/ update_user(r)
        \/ delete_user(r)

InitLookups ==
    /\ leads = [i \in LeadIds |-> IF i = AdminId THEN Admin(NullText) ELSE NoLead]
    /\ orders = <<Order(1, "novyi"), Order(2, CANCELLED)>>
    /\ env = [fetch_raises |-> FALSE, faq |-> "FAQ",
              search |-> [raises |-> FALSE, hits |-> <<>>], commit_raises |-> FALSE]
    /\ req = [r \in Reqs |-> IdleReq]
    /\ base = LoadedBase
    /\ started = 0

SpecLookups == InitLookups /\ [][NextLookups]_vars

\* ------------------------------------------------------------ auth routes
\* request bodies of POST /auth/register and POST /auth/users
UserCreates == {UserBase({"login", "password"}, NULL, "nobody", "pw", FALSE),
                UserBase({"login", "password", "is_admin"}, NULL, "nobody", "pw", TRUE),
                UserBase({"name", "login", "is_admin"}, "Eve", "admin", NULL, TRUE)}

\* mutant of UserRow: the is_admin of the body is stored as sent
UserRow_as_sent(user, is_admin) ==
    [name |-> user.name, login |-> user.login,
     password |-> IF Truthy(user.password) THEN hash_password(user.password)
                  ELSE user.password,
     is_admin |-> user.is_admin]

\* user.is_admin = ...; if user.password: user.password = hash_password(...)
\* (assignments to the schema object, which .dict() then returns)
UserRow(user, is_admin) ==
    [name |-> user.name, login |-> user.login,
     password |-> IF Truthy(user.password) THEN hash_password(user.password)
                  ELSE user.password,
     is_admin |-> is_admin]

\* POST /auth/register: no token; every new user is an ordinary one
register_user(r) ==
    /\ Free(r)
    /\ started < MaxRequests
    /\ \E user \in UserCreates :
         LET w == create_lead_service(UserRow(user, FALSE))
             q == Route("register_user", w.lead.id, NULL,
                        IF ~w.raised THEN 201 ELSE IF w.integrity THEN 400 ELSE 500) IN
         Handle(r, q, w.leads, orders)

\* POST /auth/users: a caller who is no administrator is refused an
\* administrator and creates ordinary users
create_user(r) ==
    /\ Free(r)
    /\ started < MaxRequests
    /\ \E user \in UserCreates, token \in Tokens :
         LET current_user == get_current_user(token)
             refused == ~current_user.is_admin /\ user.is_admin
             w == create_lead_service(
                      UserRow(user, IF current_user.is_admin THEN user.is_admin ELSE FALSE))
             status == IF refused THEN 403 ELSE IF ~w.raised THEN 201
                       ELSE IF w.integrity THEN 409 ELSE 500 IN
         Guarded(r, "create_user", IF refused THEN 0 ELSE w.lead.id, token, status,
                 IF refused THEN leads ELSE w.leads, orders)

Logins == {"admin", "nobody"}

Passwords == {"admin", "pw"}

\* users = await read_leads_service(request): the first 100 rows
read_leads_service == {leads[i] : i \in {j \in LeadIds : leads[j].present}}

\* POST /auth/token: the HTTPException(401) for an unknown login or a
\* wrong password is raised inside the try block, whose except Exception
\* answers every exception with HTTPException(500)
login_for_access_token(r) ==
    /\ Free(r)
    /\ started < MaxRequests
    /\ \E username \in Logins, password \in Passwords :
         LET users == {u \in read_leads_service : u.login = username}
             user == IF users = {} THEN NoLead ELSE CHOOSE u \in users : TRUE
             failed == ~user.present \/ ~verify_password(password, user.password)
             q == [Route("login_for_access_token", user.id, NULL,
                         IF failed THEN 500 ELSE 200)
                      EXCEPT !.user_input = username, !.password = password,
                             !.response = IF failed THEN NULL ELSE user.login] IN
         Handle(r, q, leads, orders)

NextAuth ==
    \E r \in Reqs :
        \/ register_user(r)
        \/ create_user(r)
        \/ update_user(r)
        \/ login_for_access_token(r)

\* the row of a user registered as nobody / pw
Registered(i) ==
    [Lead(i, NULL, NULL, NullText)
        EXCEPT !.login = "nobody", !.password = hash_password("pw")]

\* after init_db: the administrator only, or the administrator and one
\* user who has registered
InitAuth ==
    /\ \E registered \in BOOLEAN :
         leads = [i \in LeadIds |->
                    IF i = AdminId THEN Admin(NullText)
                    ELSE IF registered /\ i = AdminId + 1 THEN Registered(i)
                    ELSE NoLead]
    /\ orders = <<Order(1, "novyi"), Order(2, CANCELLED)>>
    /\ env = [fetch_raises |-> FALSE, faq |-> "FAQ",
              search |-> [raises |-> FALSE, hits |-> <<>>], commit_raises |-> FALSE]
    /\ base = LoadedBase
    /\ req = [r \in Reqs |-> IdleReq]
    /\ started = 0

SpecAuth == InitAuth /\ [][NextAuth]_vars

\* The dialog routes and the history route over a database whose stored
\* log of the administrator is text that is no JSON, JSON that is no
\* list, or a history of one turn.
InitDecode ==
    /\ \E log \in {GarbageText, NonListText,
                    json_dumps(<<Turn("user", "hi"), Turn("assistant", "ok")>>)} :
         leads = [i \in LeadIds |-> IF i = AdminId THEN Admin(log) ELSE NoLead]
    /\ orders = <<Order(1, "novyi"), Order(2, CANCELLED)>>
    /\ env = [fetch_raises |-> FALSE, faq |-> "FAQ",
              search |-> [raises |-> FALSE, hits |-> <<>>], commit_raises |-> FALSE]
    /\ req = [r \in Reqs |-> IdleReq]
    /\ base = LoadedBase
    /\ started = 0

NextDecode ==
    \/ Next
    \/ \E r \in Reqs : get_dialog_history(r)

SpecDecode == InitDecode /\ [][NextDecode]_vars

\* ------------------------------------------------- knowledge-index routes
\* POST /chunks and POST /rebuild run on the event loop (async def); a
\* handler runs alone from one await that suspends it to the next.  The
\* only such awaits here are those of the routes' log calls, made after
\* the call into Base has returned or raised.
HttpStatus(raised) ==
    IF raised = NULL THEN 200 ELSE IF raised = "FileNotFoundError" THEN 404 ELSE 500

\* what the file at BASE_LOCAL_PATH holds when it is read
Files == Documents \cup {NULL}

\* routes.base.search_chunks up to its first await
post_chunks(r) ==
    /\ Free(r)
    /\ started < MaxRequests
    /\ \E token \in Tokens, query \in UserInputs, document \in Files,
          embed_raises \in BOOLEAN, save_raises \in BOOLEAN :
         LET q == [Route("search_chunks", 0, token, 401) EXCEPT !.user_input = query]
             x == similarity_search(base, document, embed_raises, save_raises) IN
         IF ~get_current_user(token).present
         THEN req' = [req EXCEPT ![r] = q] /\ base' = base
         ELSE IF Strip(query) = ""
         THEN req' = [req EXCEPT ![r] = [q EXCEPT !.pc = "log", !.status = 400]]
              /\ base' = base
         ELSE /\ req' = [req EXCEPT ![r] =
                           [q EXCEPT !.pc = "log", !.status = HttpStatus(x.raised),
                                     !.results = x.index]]
              /\ base' = x.base
    /\ started' = started + 1
    /\ UNCHANGED <<leads, orders, env>>

\* routes.base.rebuild_index up to its first await
post_rebuild(r) ==
    /\ Free(r)
    /\ started < MaxRequests
    /\ \E token \in Tokens, document \in Files,
          embed_raises \in BOOLEAN, save_raises \in BOOLEAN :
         LET q == Route("rebuild_index", 0, token, 401)
             x == rebuild_index(base, document, embed_raises, save_raises) IN
         IF ~get_current_user(token).present
         THEN req' = [req EXCEPT ![r] = q] /\ base' = base
         ELSE /\ req' = [req EXCEPT ![r] =
                           [q EXCEPT !.pc = "log", !.status = HttpStatus(x.raised)]]
              /\ base' = x.base
    /\ started' = started + 1
    /\ UNCHANGED <<leads, orders, env>>

\* the log call returns and the route returns or raises its HTTPException
log_returns(r) ==
    /\ req[r].pc = "log"
    /\ req' = [req EXCEPT ![r] = [@ EXCEPT !.pc = "done"]]
    /\ UNCHANGED <<leads, orders, env, base, started>>

NextIndex ==
    \E r \in Reqs :
        \/ post_chunks(r)
        \/ post_rebuild(r)
        \/ log_returns(r)

\* Base() at startup: the folder exists and is loaded, or the index is
\* built from the document and saved
InitIndex ==
    /\ leads = [i \in LeadIds |-> IF i = AdminId THEN Admin(NullText) ELSE NoLead]
    /\ orders = <<Order(1, "novyi"), Order(2, CANCELLED)>>
    /\ env = [fetch_raises |-> FALSE, faq |-> "FAQ",
              search |-> [raises |-> FALSE, hits |-> <<>>], commit_raises |-> FALSE]
    /\ base \in {LoadedBase, load_index([LoadedBase EXCEPT !.saved = NULL, !.index = NULL],
                                        "doc1", FALSE, FALSE).base}
    /\ req = [r \in Reqs |-> IdleReq]
    /\ started = 0

SpecIndex == InitIndex /\ [][NextIndex]_vars

\* ================================================================ claims
\* the two history entries a turn adds
TurnEntries(q) ==
    <<Turn("user", q.user_input), Turn("assistant", q.model_answer)>>

\* the prompt of request q: whether it has a message of a tag, and the
\* content under a tag
HasTag(q, tag) == \E k \in DOMAIN q.messages : q.messages[k].tag = tag

Section(q, tag) ==
    q.messages[CHOOSE k \in DOMAIN q.messages : q.messages[k].tag = tag].content

\* a turn whose prompt was assembled
Assembled(q) == q.op = "turn" /\ q.messages # <<>>

\* a request finishes in this step
Finishes(r) == req[r].pc # "done" /\ req'[r].pc = "done"

\* C1: History monotonicity.  In every turn in which the LLM call returned,
\* the save that ends the turn succeeds and leaves as the stored history of
\* the client the history loaded at the start of the turn followed by
\* exactly two entries: the user's input, then the assistant's model_answer.
C1_HistoryMonotonicity ==
    [][\A r \in Reqs :
        (req[r].pc = "save" /\ req'[r] # req[r]) =>
            LET q == req[r] IN
            /\ req'[r].pc = "done" /\ req'[r].status = 200
            /\ leads'[q.client_id].present
            /\ json_loads_is_list(leads'[q.client_id].log)
            /\ json_loads(leads'[q.client_id].log) = q.history0 \o TurnEntries(q)
            /\ Len(json_loads(leads'[q.client_id].log)) = Len(q.history0) + 2]_vars

\* C1 witness: a degraded turn (the reply did not parse) on a history that
\* already held a turn is done and the stored history is the loaded one
\* plus its two entries.
C1_Witness ==
    \E r \in Reqs :
        /\ req[r].op = "turn" /\ req[r].pc = "done" /\ req[r].status = 200
        /\ req[r].parse_failed /\ Len(req[r].history0) = 2
        /\ leads[req[r].client_id].log
             = json_dumps(req[r].history0 \o TurnEntries(req[r]))

\* C2: First contact.  A turn for a client that has no profile record goes
\* on with a null profile: the prompt is built, the LLM is called, and when
\* the LLM answers the turn returns that answer.
C2_FirstContact ==
    \A r \in Reqs :
        (req[r].op = "turn" /\ req[r].pc = "done" /\ Strip(req[r].user_input) # ""
           /\ ~req[r].loaded.present)
        => (req[r].messages # <<>> /\ req[r].llm_calls = 1)

\* C3: A profile record the engine creates because the client has none
\* carries the client's id.
C3_CreatedIdentity ==
    \A r \in Reqs :
        (req[r].pc = "done" /\ req[r].status = 200 /\ req[r].writes = 1
           /\ ~req[r].loaded.present)
        => req[r].lead.id = req[r].client_id

\* the profile row of a cleared client
Cleared(row) ==
    /\ row.present /\ row.name = NULL /\ row.contact = NULL
    /\ row.log = json_dumps(<<>>)

\* C4: Idempotent clear.  Every clearDialog(clientId) ends without error and
\* leaves the profile of clientId with an empty history and null name and
\* contact; a clear of an already cleared client changes nothing in the
\* store.
C4_IdempotentClear ==
    [][\A r \in Reqs :
        (req[r].pc = "clear" /\ Finishes(r)) =>
            LET c == req[r].client_id IN
            /\ req'[r].status = 200
            /\ Cleared(leads'[c])
            /\ (Cleared(leads[c]) => leads' = leads)]_vars

\* C5: Malformed-response resilience.  When the reply is no JSON, the turn
\* returns a non-empty string with status 200, the stored history gains
\* exactly the turn's two entries, no SQL is executed (the order table keeps
\* its rows) and the stored name and contact stay as they are.
C5_MalformedResilience ==
    [][\A r \in Reqs :
        LET q == req[r]
            c == q.client_id IN
        /\ (q.pc = "llm" /\ req'[r].pc = "save" /\ req'[r].raw_response.kind = "garbage")
             => (req'[r].sql_calls = 0 /\ orders' = orders)
        /\ (q.pc = "save" /\ q.raw_response.kind = "garbage" /\ req'[r] # q)
             => /\ req'[r].pc = "done" /\ req'[r].status = 200
                /\ req'[r].response \notin {NULL, ""}
                /\ q.sql_calls = 0
                /\ json_loads(leads'[c].log) = q.history0 \o TurnEntries(q)
                /\ leads'[c].name = leads[c].name
                /\ leads'[c].contact = leads[c].contact
                /\ req'[r].lead.name = q.loaded.name
                /\ req'[r].lead.contact = q.loaded.contact]_vars

\* C5 witness: a turn whose reply was no JSON is done on a profile that has
\* a name.
C5_Witness ==
    \E r \in Reqs :
        /\ req[r].op = "turn" /\ req[r].pc = "done" /\ req[r].status = 200
        /\ req[r].raw_response.kind = "garbage"
        /\ req[r].response = ParseError
        /\ Truthy(leads[req[r].client_id].name)
        /\ Len(json_loads(leads[req[r].client_id].log)) = Len(req[r].history0) + 2

\* C6: The LLM is called once per turn that reaches the call and never
\* again; when the call fails the route answers 500, no SQL has been or is
\* executed, and the step changes neither the leads nor the orders (nothing
\* was written earlier in the turn either).
C6_LlmFailure ==
    [][\A r \in Reqs :
        LET q == req[r] IN
        /\ (q.pc = "llm" /\ req'[r] # q)
             => (q.llm_calls = 0 /\ req'[r].llm_calls = 1)
        /\ (q.pc = "save" /\ req'[r] # q)
             => (q.llm_calls = 1 /\ req'[r].llm_calls = 1)
        /\ (q.pc = "llm" /\ Finishes(r))
             => /\ req'[r].status = 500 /\ req'[r].response = NULL
                /\ req'[r].sql_calls = 0 /\ req'[r].writes = 0
                /\ q.writes = 0
                /\ leads' = leads /\ orders' = orders]_vars

\* C6 witness: a turn ended by a failed LLM call, with the stored profile of
\* its client as it was loaded.
C6_Witness ==
    \E r \in Reqs :
        /\ Assembled(req[r]) /\ req[r].pc = "done" /\ req[r].status = 500
        /\ req[r].llm_calls = 1 /\ req[r].raw_response = EmptyDict
        /\ leads[req[r].client_id] = req[r].loaded

\* C7: Degraded search.  When the FAQ is read and the search raises, the
\* prompt is still built and its "relevant fragments" message carries the
\* failure placeholder.
C7_DegradedSearch ==
    \A r \in Reqs :
        (Assembled(req[r]) /\ env.faq # "raise" /\ env.search.raises)
        => Section(req[r], "chunks") = KbError

\* the ids in the lines of an orders section
LineIds(content) == {content.lines[k].id : k \in DOMAIN content.lines}

\* C8: Cancelled-order exclusion.  The order summary built from the list the
\* order store returns has one line for each order that is not cancelled,
\* none for a cancelled one, and is the "no orders found" placeholder when
\* no order is left.
C8_CancelledExcluded ==
    [][\A r \in Reqs :
        (req[r].pc # "llm" /\ req'[r].pc = "llm" /\ ~env.fetch_raises) =>
            LET sec == Section(req'[r], "orders")
                kept == {k \in DOMAIN orders : orders[k].status # CANCELLED} IN
            /\ LineIds(sec) = {orders[k].id : k \in kept}
            /\ Len(sec.lines) = Cardinality(kept)
            /\ \A k \in DOMAIN orders :
                 orders[k].status = CANCELLED => orders[k].id \notin LineIds(sec)
            /\ (kept = {}) <=> (sec = Text("zakazy ne naideny"))]_vars

\* C8 witness: a prompt whose order summary has the line of order 1 and no
\* line of the cancelled order 2, both being in the table.
C8_Witness ==
    \E r \in Reqs :
        /\ Assembled(req[r]) /\ req[r].pc = "llm" /\ ~env.fetch_raises
        /\ \E k \in DOMAIN orders : orders[k].id = 2 /\ orders[k].status = CANCELLED
        /\ LineIds(Section(req[r], "orders")) = {1}

\* C9: First-contact greeting nudge.  Every assembled prompt has the greeting
\* message exactly when the profile has neither name nor contact, the known
\* client info message exactly when it has one of them, and so exactly one
\* of the two.
C9_GreetingNudge ==
    \A r \in Reqs :
        Assembled(req[r]) =>
            LET lead == req[r].loaded
                none == ~Truthy(lead.name) /\ ~Truthy(lead.contact)
                n == Cardinality({k \in DOMAIN req[r].messages :
                                    req[r].messages[k].tag \in {"greeting", "known"}}) IN
            /\ HasTag(req[r], "greeting") <=> none
            /\ HasTag(req[r], "known") <=> ~none
            /\ n = 1

\* C9 witness: the prompt of a turn on a profile that has neither name nor
\* contact carries the greeting message and not the known client info.
C9_Witness ==
    \E r \in Reqs :
        /\ Assembled(req[r]) /\ req[r].loaded.present
        /\ req[r].loaded.name = NULL /\ req[r].loaded.contact = NULL
        /\ HasTag(req[r], "greeting") /\ ~HasTag(req[r], "known")

\* C10: Every call of processTurn gives the caller an answer text, whatever
\* the profile and the reply; the only turn without a text is one whose LLM
\* call failed.
C10_AlwaysAnswers ==
    \A r \in Reqs :
        (req[r].op = "turn" /\ req[r].pc = "done" /\ req[r].status # 400)
        => \/ (req[r].status = 200 /\ req[r].response # NULL)
           \/ (req[r].status = 500 /\ req[r].llm_calls = 1
                 /\ req[r].raw_response = EmptyDict /\ req[r].writes = 0)

\* the scores of a list of hits, in order
Scores(hs) == [k \in DOMAIN hs |-> hs[k].score]

\* C11: Score ordering.  The fragment list of every prompt built from a
\* successful search carries exactly the hits the index returned, ordered
\* by ascending score whatever the order the index gave them in.
C11_ScoreOrdering ==
    \A r \in Reqs :
        (Assembled(req[r]) /\ env.faq # "raise" /\ ~env.search.raises
           /\ env.search.hits # <<>>) =>
            LET ls == Section(req[r], "chunks").lines IN
            /\ Len(ls) = Len(env.search.hits)
            /\ {ls[k] : k \in DOMAIN ls} = {env.search.hits[k] : k \in DOMAIN env.search.hits}
            /\ \A i, j \in DOMAIN ls : i < j => ls[i].score <= ls[j].score

\* C11 witness: the index returned the scores 5, 1, 9 and the prompt lists
\* them as 1, 5, 9.
C11_Witness ==
    \E r \in Reqs :
        /\ Assembled(req[r])
        /\ Scores(env.search.hits) = <<5, 1, 9>>
        /\ Scores(Section(req[r], "chunks").lines) = <<1, 5, 9>>

\* the step in which slot r takes a new request of the given kind
Arrives(r, op) == started' = started + 1 /\ req'[r] # req[r] /\ req'[r].op = op

\* C13: Empty input rejected.  A turn request whose input is empty or only
\* whitespace is answered 400 at once: the engine is not entered, the
\* LLM is not called, no SQL runs, and neither table changes.
C13_EmptyInputRejected ==
    [][\A r \in Reqs :
         (Arrives(r, "turn") /\ req'[r].user_input \in {"", "  "}) =>
             /\ req'[r].pc = "done"
             /\ req'[r].status = 400
             /\ req'[r].messages = <<>>
             /\ req'[r].llm_calls = 0
             /\ req'[r].sql_calls = 0
             /\ req'[r].writes = 0
             /\ leads' = leads
             /\ orders' = orders]_vars

\* C13 witness: a whitespace-only request was answered 400 while an
\* earlier turn had already stored history, which is still there.
C13_Witness ==
    \E r \in Reqs :
        /\ req[r].op = "turn" /\ req[r].pc = "done"
        /\ req[r].user_input = "  " /\ req[r].status = 400
        /\ leads[1].log.kind = "list" /\ Len(leads[1].log.items) = 2

\* C15: Profile merge.  After the merge the turn's name is the reply's
\* user_name only when the key came with a non-empty string; an absent,
\* null or empty user_name keeps the name that was loaded, and the same
\* holds for contact, each field on its own.
C15_ProfileMerge ==
    [][\A r \in Reqs :
         (req[r].pc = "save" /\ req'[r].pc = "done" /\ ~req[r].parse_failed
            /\ req[r].raw_response.kind = "dict") =>
             LET un == req[r].raw_response.user_name
                 uc == req[r].raw_response.user_contact IN
             /\ req'[r].lead.name =
                    IF un \in {ABSENT, NULL, ""} THEN req[r].loaded.name ELSE un
             /\ req'[r].lead.contact =
                    IF uc \in {ABSENT, NULL, ""} THEN req[r].loaded.contact ELSE uc]_vars

\* a finished turn of another slot on the same client that loaded the same
\* history as q and whose persist is what the store holds now
Overtaken(q, o) ==
    /\ o.op = "turn" /\ o.pc = "done" /\ o.status = 200
    /\ o.client_id = q.client_id
    /\ o.history0 = q.history0
    /\ leads[q.client_id].log = json_dumps(o.history0 \o TurnEntries(o))

\* C17: Same-client race.  Two turns of one client run side by side; when
\* both loaded the profile before either persisted, the later persist
\* also succeeds and the stored history becomes the loaded history plus
\* the later turn's two entries only: the earlier turn's entries are gone.
C17_SameClientRace ==
    [][\A r \in Reqs : \A o \in Reqs \ {r} :
         (req[r].pc = "save" /\ req'[r].pc = "done" /\ Overtaken(req[r], req[o])) =>
             LET c == req[r].client_id
                 h == leads'[c].log.items IN
             /\ req'[r].status = 200
             /\ req[o].status = 200
             /\ leads'[c].log.kind = "list"
             /\ h = req[r].history0 \o TurnEntries(req'[r])
             /\ Len(h) = Len(req[r].history0) + 2
             /\ TurnEntries(req[o]) # TurnEntries(req'[r]) =>
                    \A k \in DOMAIN h : k > Len(req[r].history0) =>
                        h[k] # TurnEntries(req[o])[2]]_vars

\* C17 witness: both turns of client 1 loaded the same history and ended
\* with 200 with different answers; the store holds the entries of one
\* and not those of the other.
C17_Witness ==
    \E r \in Reqs : \E o \in Reqs \ {r} :
        /\ req[r].op = "turn" /\ req[r].pc = "done" /\ req[r].status = 200
        /\ Overtaken(req[r], req[o])
        /\ req[r].model_answer # req[o].model_answer
        /\ leads[req[r].client_id].log # json_dumps(req[r].history0 \o TurnEntries(req[r]))

\* C18: SQL failure is not fatal.  execute_sql always returns: false for a
\* statement that fails (the order table stays as it was), true
\* otherwise.  A turn whose statement failed goes on: it answers 200 with
\* the answer parsed from the reply, its history gains the two entries
\* and the profile write takes place.
C18_SqlFailureNotFatal ==
    [][\A r \in Reqs :
         /\ (req[r].pc = "llm" /\ req'[r].sql_calls = req[r].sql_calls + 1) =>
                /\ req'[r].success \in {"True", "False"}
                /\ req'[r].success = "True" <=> req'[r].sql_command \in {"INSERT", "CANCEL1"}
                /\ req'[r].success = "False" => orders' = orders
                /\ req'[r].pc = "save"
                /\ req'[r].model_answer = parse_response(req'[r].raw_response).model_answer
         /\ (req[r].pc = "save" /\ req'[r] # req[r] /\ req[r].success = "False") =>
                /\ req'[r].pc = "done"
                /\ req'[r].status = 200
                /\ req'[r].response = req[r].model_answer
                /\ req'[r].writes = 1
                /\ leads'[req[r].client_id].log =
                       json_dumps(req[r].history0 \o TurnEntries(req[r]))]_vars

\* C18 witness: a finished turn whose statement failed answered 200 with
\* the reply's answer and left two entries in the store.
C18_Witness ==
    \E r \in Reqs :
        /\ req[r].pc = "done" /\ req[r].success = "False"
        /\ req[r].sql_command = "BAD"
        /\ req[r].status = 200 /\ req[r].response = "ok"
        /\ leads[req[r].client_id].log = json_dumps(TurnEntries(req[r]))

\* the lead of request q after step 9 merged the reply into it
Merged(q) ==
    update_lead(q.lead, IF q.parse_failed THEN EmptyDict ELSE re_sub_control(q.raw_response))

\* C19: Single combined write.  A turn that completes has made exactly
\* one profile write, after the reply was parsed and its SQL applied, and
\* after that write the stored row carries the merged name, the merged
\* contact and the serialized history of the turn.
C19_SingleCombinedWrite ==
    [][\A r \in Reqs :
         (req[r].pc = "save" /\ req'[r].pc = "done" /\ req'[r].status = 200) =>
             LET c == req[r].client_id IN
             /\ req[r].writes = 0 /\ req'[r].writes = 1
             /\ req[r].llm_calls = 1
             /\ leads'[c].present
             /\ leads'[c].log = json_dumps(req[r].dialog_history
                                           \o <<Turn("assistant", req[r].model_answer)>>)
             /\ leads'[c].name = Merged(req[r]).name
             /\ leads'[c].contact = Merged(req[r]).contact]_vars

\* C20: Search failure stays in its section.  When the FAQ text was read
\* and the search then failed, the prompt's FAQ section still carries the
\* text read (the placeholder for an empty text) and the error string
\* stands in the fragments section.
C20_SearchFailureConfined ==
    \A r \in Reqs :
        (Assembled(req[r]) /\ env.faq # "raise" /\ env.search.raises) =>
            /\ Section(req[r], "faq") =
                   (IF Strip(env.faq) = "" THEN Text("Baza znanii pusta") ELSE Text(env.faq))
            /\ Section(req[r], "faq") # KbError
            /\ Section(req[r], "chunks") # Text("")

\* the step in which a turn in slot r ends with the failure status
TurnFails(r) ==
    /\ req'[r] # req[r]
    /\ req'[r].op = "turn" /\ req'[r].pc = "done" /\ req'[r].status = 500

\* C14: No partial persistence (as claimed).  A turn that fails, before
\* the final write or in it, leaves the stored profile as it was and has
\* applied no SQL side effect.
C14_NoPartialPersistence ==
    [][\A r \in Reqs :
         TurnFails(r) =>
             /\ leads' = leads
             /\ req'[r].writes = 0
             /\ req'[r].success # "True"]_vars

\* C14 (amended): a failing turn never changes the stored profile; a turn
\* that fails before step 8 has run no SQL; a turn whose final write
\* fails keeps the effect of the statement step 8 committed.
C14_ProfileUntouchedSqlKept ==
    [][\A r \in Reqs :
         TurnFails(r) =>
             /\ leads' = leads
             /\ req'[r].writes = 0
             /\ orders' = orders
             /\ req[r].pc # "save" => req'[r].sql_calls = 0 /\ req'[r].success = NULL
             /\ req[r].pc = "save" => req'[r].success = req[r].success]_vars

\* C14 witness: the final write of a turn failed after its INSERT was
\* committed: the order table has the new row, the profile is untouched.
C14_Witness ==
    \E r \in Reqs :
        /\ req[r].op = "turn" /\ req[r].pc = "done" /\ req[r].status = 500
        /\ req[r].sql_command = "INSERT" /\ req[r].success = "True"
        /\ Len(orders) = 3
        /\ leads[1] = Admin(NullText)

\* the message of request q under a tag, and the number of characters of
\* its content that the message carries
Message(q, tag) == q.messages[CHOOSE k \in DOMAIN q.messages : q.messages[k].tag = tag]

KeptLen(q, tag) == Message(q, tag).kept[2] - Message(q, tag).kept[1] + 1

\* C16: Truncation direction.  The FAQ and fragment sections carry at
\* most 4000 characters and the history section at most 2000; of a
\* rendered history longer than that the section carries the last 2000
\* characters, the oldest content being dropped.
C16_TrailingSlice ==
    \A r \in Reqs :
        Assembled(req[r]) =>
            LET total == dialog_len(Section(req[r], "history")) IN
            /\ KeptLen(req[r], "faq") <= 4000
            /\ KeptLen(req[r], "chunks") <= 4000
            /\ KeptLen(req[r], "history") <= 2000
            /\ Message(req[r], "history").kept[2] = total
            /\ total > 2000 => Message(req[r], "history").kept[1] = total - 1999

\* C16, the slice the code takes: the same budgets, but of a rendered
\* history longer than 2000 characters the section carries the first
\* 2000: the oldest content is kept and the newest dropped, and the same
\* head slice is taken of the FAQ and of the fragments.
C16_LeadingSlice ==
    \A r \in Reqs :
        Assembled(req[r]) =>
            LET total == dialog_len(Section(req[r], "history"))
                faq == CharLen(Section(req[r], "faq").text)
                chunks == chunks_len(Section(req[r], "chunks")) IN
            /\ KeptLen(req[r], "faq") <= 4000
            /\ KeptLen(req[r], "chunks") <= 4000
            /\ KeptLen(req[r], "history") <= 2000
            /\ Message(req[r], "history").kept = <<1, IF total > 2000 THEN 2000 ELSE total>>
            /\ Message(req[r], "faq").kept = <<1, IF faq > 4000 THEN 4000 ELSE faq>>
            /\ Message(req[r], "chunks").kept = <<1, IF chunks > 4000 THEN 4000 ELSE chunks>>

\* C16, a prompt cut at the head: a prompt whose rendered history has more than 3000
\* characters carries its first 2000, which end before the line of the
\* user's new message begins; its FAQ of 5000 characters is cut to 4000.
C16_Witness ==
    \E r \in Reqs :
        /\ Assembled(req[r])
        /\ dialog_len(Section(req[r], "history")) > 3000
        /\ Message(req[r], "history").kept = <<1, 2000>>
        /\ Section(req[r], "history").lines[3] = Turn("user", "hi")
        /\ 2000 < dialog_len(Section(req[r], "history")) - 7
        /\ CharLen(Section(req[r], "faq").text) = 5000
        /\ Message(req[r], "faq").kept = <<1, 4000>>

\* the routes that look a lead up by id, and those that look an order up
LeadLookups ==
    {"read_lead", "put_lead", "delete_lead", "get_dialog_history",
     "get_user", "update_user", "delete_user"}

OrderLookups == {"read_order", "update_order", "delete_order"}

\* no record has the id the route of that name looks up
Missing(op, id) ==
    IF op \in OrderLookups THEN OrderIndex(id) = 0 ELSE ~leads[id].present

\* C12: Not found at the boundary.  A route that looks a lead, a user or
\* an order up by id and finds no record answers 404 to a caller it does
\* not refuse (401, 403), never 500, and leaves both tables as they were.
C12_NotFound ==
    [][\A r \in Reqs :
         (/\ started' = started + 1
          /\ req'[r] # req[r]
          /\ req'[r].op \in LeadLookups \cup OrderLookups
          /\ Missing(req'[r].op, req'[r].client_id)
          /\ req'[r].status \notin {401, 403}) =>
             /\ req'[r].status = 404
             /\ leads' = leads
             /\ orders' = orders]_vars

\* C21: Orders failure degrades.  When the order fetch raises, the prompt
\* is still built: its orders section is the error text, its FAQ and
\* fragment sections are what the knowledge base gave; the LLM is called
\* once and the turn ends with 200, its answer and two more entries stored.
C21_OrdersFailureDegrades ==
    [][\A r \in Reqs :
         env.fetch_raises =>
             /\ (Arrives(r, "turn") /\ Strip(req'[r].user_input) # ""
                   /\ leads[req'[r].client_id].present) =>
                    /\ req'[r].pc = "llm"
                    /\ Section(req'[r], "orders") = Text("Oshibka chteniya zakazov")
                    /\ Section(req'[r], "faq") = knowledge(env.faq, env.search).faq_text
                    /\ Section(req'[r], "chunks") = knowledge(env.faq, env.search).chunks_text
             /\ (req[r].pc = "llm" /\ req'[r] # req[r]) => req'[r].llm_calls = 1
             /\ (req[r].pc = "save" /\ req'[r] # req[r]) =>
                    /\ req'[r].pc = "done" /\ req'[r].status = 200
                    /\ req'[r].response = req[r].model_answer
                    /\ req'[r].llm_calls = 1
                    /\ leads'[req[r].client_id].log =
                           json_dumps(req[r].history0 \o TurnEntries(req[r]))]_vars

\* C21 witness: with a failing order fetch a turn ended with 200 and the
\* reply's answer; its prompt lists the three fragments found and its two
\* entries are stored.
C21_Witness ==
    \E r \in Reqs :
        /\ env.fetch_raises
        /\ req[r].op = "turn" /\ req[r].pc = "done" /\ req[r].status = 200
        /\ req[r].response = "ok" /\ req[r].llm_calls = 1
        /\ Section(req[r], "orders") = Text("Oshibka chteniya zakazov")
        /\ Section(req[r], "faq") = Text("FAQ")
        /\ Len(Section(req[r], "chunks").lines) = 3
        /\ leads[req[r].client_id].log = json_dumps(TurnEntries(req[r]))

\* stored text that does not decode to a list
Undecodable(text) == text.kind \in {"garbage", "value"}

\* C22: Tolerant history decode.  A stored history that is no JSON or no
\* list reads as the empty list everywhere: a turn persists exactly its
\* two entries, and the history route answers 200 with the empty list.
C22_TolerantDecode ==
    [][\A r \in Reqs :
         /\ (req[r].pc = "save" /\ req'[r] # req[r] /\ Undecodable(req[r].loaded.log)) =>
                /\ req'[r].status = 200
                /\ leads'[req[r].client_id].log = json_dumps(TurnEntries(req[r]))
         /\ (Arrives(r, "get_dialog_history") /\ req'[r].status # 401
               /\ leads[req'[r].client_id].present
               /\ Undecodable(leads[req'[r].client_id].log)) =>
                /\ req'[r].status = 200
                /\ req'[r].dialog_history = <<>>]_vars

\* the tags and the roles of the prompt of request q, in order
Tags(q) == [k \in DOMAIN q.messages |-> q.messages[k].tag]

Roles(q) == [k \in DOMAIN q.messages |-> q.messages[k].role]

\* C23: Prompt message order.  The prompt a turn assembles is the seven
\* context messages persona, date, tracking number, orders, FAQ, fragments,
\* history, then one of greeting and known client info, all of role system,
\* and last the one message of role user, which carries the raw user input;
\* the step that assembles it leaves the stored profiles, the profile read
\* and the in-memory history (the loaded one plus the user's entry) alone.
C23_PromptOrder ==
    [][\A r \in Reqs :
         (Arrives(r, "turn") /\ Assembled(req'[r])) =>
            LET q == req'[r] IN
            /\ \E c \in {"greeting", "known"} :
                   Tags(q) = <<"persona", "date", "track", "orders", "faq",
                               "chunks", "history", c, "question">>
            /\ Roles(q) = <<"system", "system", "system", "system", "system",
                            "system", "system", "system", "user">>
            /\ q.messages[Len(q.messages)].content = Text(q.user_input)
            /\ q.dialog_history = q.history0 \o <<Turn("user", q.user_input)>>
            /\ q.lead = q.loaded /\ q.lead = leads[q.client_id]
            /\ leads' = leads /\ orders' = orders]_vars

\* C23 witness: a turn on a profile with a name and a stored history waits
\* for the LLM with a prompt of nine messages, the known client info in
\* eighth place and the user's question last.
C23_Witness ==
    \E r \in Reqs :
        /\ Assembled(req[r]) /\ req[r].pc = "llm"
        /\ Truthy(req[r].loaded.name) /\ req[r].history0 # <<>>
        /\ Len(req[r].messages) = 9
        /\ req[r].messages[8].tag = "known"
        /\ req[r].messages[9] = user_message(req[r].user_input)

\* C24: Cross-client independence.  A step of a turn or of a clear of one
\* client that has run no SQL statement leaves the stored row of every
\* other client as it was.
C24_CrossClientFrame ==
    [][\A r \in Reqs :
         (req'[r] # req[r] /\ req'[r].op \in {"turn", "clear"}
            /\ req'[r].sql_calls = 0) =>
                \A b \in LeadIds \ {req'[r].client_id} : leads'[b] = leads[b]]_vars

\* C25: Index rebuild is atomic for readers.  The index in memory is never
\* missing; a rebuild leaves it the old index or, whole, the index of the
\* document it read, and the latter whenever it answers 200; a search that
\* answers 200 has searched the index that was in memory when it ran.
C25_RebuildAtomic ==
    [][/\ base'.index # NULL
       /\ \A r \in Reqs :
            /\ (Arrives(r, "rebuild_index") /\ req'[r].status # 401) =>
                   /\ base'.index \in {base.index} \cup Documents
                   /\ req'[r].status = 200 =>
                          base'.index \in Documents /\ base'.saved = base'.index
            /\ (Arrives(r, "search_chunks") /\ req'[r].status = 200) =>
                   /\ req'[r].results = base.index
                   /\ base' = base]_vars

\* C25 witness: after a rebuild from the second document failed with 500
\* while embedding, leaving no folder on disk, a search answers 200 from
\* the old index.
C25_Witness ==
    \E r, r2 \in Reqs :
        /\ req[r].op = "rebuild_index" /\ req[r].status = 500
        /\ base.saved = NULL /\ base.chunks = "doc2"
        /\ req[r2].op = "search_chunks" /\ req[r2].status = 200
        /\ req[r2].results = "doc1"

\* C26: Login error outcome.  A login with an unknown login or a wrong
\* password is answered 401, issues no token and changes no row.
C26_LoginUnauthorized ==
    [][\A r \in Reqs :
         (/\ Arrives(r, "login_for_access_token")
          /\ ~\E u \in read_leads_service :
                 /\ u.login = req'[r].user_input
                 /\ verify_password(req'[r].password, u.password)) =>
            /\ req'[r].status = 401
            /\ req'[r].response = NULL
            /\ leads' = leads]_vars

\* C27: clearDialog frame.  The write of a clear on a profile that exists
\* succeeds and leaves the table as it was except for the client's row,
\* which keeps its id, login, password and is_admin and has name and
\* contact null and the empty history.
C27_ClearFrame ==
    [][\A r \in Reqs :
         (req[r].pc = "clear" /\ req'[r] # req[r] /\ req[r].lead.present) =>
            LET id == req[r].client_id IN
            /\ req'[r].status = 200
            /\ leads' = [leads EXCEPT ![id] =
                            [@ EXCEPT !.name = NULL, !.contact = NULL,
                                      !.log = json_dumps(<<>>)]]]_vars

\* a history of whole turns: an entry of role user, then one of role
\* assistant, and so on
Alternates(h) ==
    /\ Len(h) % 2 = 0
    /\ \A k \in DOMAIN h :
           h[k].role = IF k % 2 = 1 THEN "user" ELSE "assistant"

\* C28: Stored-history shape.  Every stored history is absent or a list of
\* even length whose entries alternate user, assistant, starting with
\* user; no entry has another role.
C28_StoredShape ==
    \A i \in LeadIds :
        leads[i].present =>
            /\ leads[i].log.kind \in {"null", "list"}
            /\ Alternates(leads[i].log.items)

\* C28 witness: two turns of a client have finished with 200 and its stored
\* history has their four entries.
C28_Witness ==
    \E i \in LeadIds :
        /\ leads[i].present /\ Len(leads[i].log.items) = 4
        /\ \A r \in Reqs : req[r].op = "turn" /\ req[r].pc = "done"
                             /\ req[r].status = 200 /\ req[r].client_id = i

\* the save of a turn that loaded a history and a name before a clear of
\* its client completed: the stored history is the empty list again and
\* the stored name and contact are null
SavesAfterClear(r) ==
    /\ req[r].pc = "save" /\ req'[r] # req[r]
    /\ req[r].history0 # <<>> /\ req[r].loaded.name # NULL
    /\ leads[req[r].client_id].log = json_dumps(<<>>)
    /\ leads[req[r].client_id].name = NULL
    /\ leads[req[r].client_id].contact = NULL

\* C29: Clear versus in-flight turn.  The save of a turn that loaded the
\* profile before a clear stores no turn of the history from before the
\* clear, only the two entries of the turn itself, and does not bring
\* back the cleared name.
C29_ClearedStaysCleared ==
    [][\A r \in Reqs :
         SavesAfterClear(r) =>
            /\ leads'[req[r].client_id].log = json_dumps(TurnEntries(req[r]))
            /\ leads'[req[r].client_id].name # req[r].loaded.name]_vars

\* the accounts that are administrators
Admins(table) == {i \in LeadIds : table[i].present /\ table[i].is_admin}

\* request r arrives at one of the three account routes from a caller who
\* is no administrator: without a token (register), with a token of no
\* account, or with the token of an ordinary user
OrdinaryCall(r) ==
    /\ started' = started + 1 /\ req'[r] # req[r]
    /\ req'[r].op \in {"register_user", "create_user", "update_user"}
    /\ ~get_current_user(req'[r].token).is_admin

\* C30: No privilege escalation.  A register, create or update call of a
\* caller who is no administrator makes no account an administrator, is
\* refused with 401 and changes nothing when its token names no account,
\* and as an update changes no row but the caller's own; an account
\* becomes an administrator only in a step in which an administrator's
\* create or update call arrives.
C30_NoEscalation ==
    [][/\ \A r \in Reqs :
            OrdinaryCall(r) =>
               LET current_user == get_current_user(req'[r].token) IN
               /\ Admins(leads') \subseteq Admins(leads)
               /\ (req'[r].op = "register_user" /\ req'[r].status = 201) =>
                      ~leads'[req'[r].client_id].is_admin
               /\ (req'[r].op # "register_user" /\ ~current_user.present) =>
                      req'[r].status = 401 /\ leads' = leads
               /\ req'[r].op = "update_user" =>
                      \A i \in LeadIds \ {current_user.id} : leads'[i] = leads[i]
       /\ ~(Admins(leads') \subseteq Admins(leads)) =>
            \E r \in Reqs :
                /\ req'[r].op \in {"create_user", "update_user"}
                /\ get_current_user(req'[r].token).is_admin]_vars

\* C30 witness: a caller registered with is_admin true in the body got an
\* ordinary account, the update of the ordinary user nobody was refused
\* with 403, and the administrator is the only administrator.
C30_Witness ==
    \E r, r2 \in Reqs :
        /\ req[r].op = "register_user" /\ req[r].status = 201
        /\ leads[req[r].client_id].login = "nobody"
        /\ ~leads[req[r].client_id].is_admin
        /\ req[r2].op = "update_user" /\ req[r2].token = "nobody"
        /\ req[r2].status = 403
        /\ Admins(leads) = {AdminId}

====
